---- MODULE Spec2Model ----
(***************************************************************************)
(* Model of the query-to-recommendation pipeline of the Shopping-Agent     *)
(* backend: ProductParser (parser.py), PriceScraper (scraper.py),          *)
(* ProductRecommender (recommender.py), VectorDatabase.add_products        *)
(* (vector_db.py) and PriceComparisonApp (app.py).                         *)
(*                                                                         *)
(* Python values are tagged records, so that values of different Python    *)
(* types can sit in one dict and be compared:                              *)
(*   None -> [none |-> TRUE]      str  -> [str |-> "..."]                  *)
(*   int  -> [num |-> n]          bool -> [bool |-> b]                     *)
(*   dict -> [obj |-> f]          list -> [list |-> <<...>>]               *)
(* A dict is a function whose DOMAIN is the set of keys that are present.  *)
(* The delivery text of an offer, the one text the code searches for       *)
(* substrings, is a sequence of characters inside the str tag.             *)
(***************************************************************************)
EXTENDS Integers, Sequences, FiniteSets, TLC

VARIABLES
    pc,             \* position of the running call
    exc,            \* name of the exception that left the call, "" if none
    user_query,     \* raw query text given to parse_query / process_query
    completions,    \* outcomes of the completion-service calls the running or
                    \* last operation has made
    search_out,     \* outcome of the offer-search-service call
    product_info,   \* structured request
    preferences,    \* preferences argument of rank_results
    search_results, \* offers handed to rank_results / generate_recommendation
    ranked_results, \* output of rank_results
    top_n,          \* top_n argument of generate_recommendation
    recommendation, \* output of generate_recommendation
    index_out,      \* outcome of the vector-store write of process_query
    result,         \* tuple returned by process_query
    progress,       \* percentages given to the progress callback so far
    collection,     \* documents of the "products" collection, in insertion order
    assigned_ids,   \* ids add_products has handed to collection.add since the
                    \* collection was last created
    batch_total,    \* offers in the batches of the add_products calls that returned
                    \* since the collection was last created
    adds,           \* add_products calls made so far
    since_clear,    \* documents inserted since the collection was last created
    cleared,        \* documents clear_database has deleted so far
    query,          \* query text of the last search_similar_products call
    n_results,      \* n_results of that call
    hit_ids,        \* ids of the documents the store returned for it, nearest first
    similar,        \* list returned by that call
    calls,          \* stages process_query has invoked and service calls made in them
    keys,           \* credentials of the configuration
    app,            \* "none", "ready" or "failed": the PriceComparisonApp object
    components,     \* the components the constructor has created
    shopping_assistant, \* None or the ShoppingAssistant of the app
    research_assistant, \* None or the ResearchAssistant of the app
    reply,          \* text returned by the last chat call, "" before the first
    op,             \* the last operation called on the app or on the vector database
    runs            \* process_query calls started so far

vars == <<pc, exc, user_query, completions, search_out, product_info,
          preferences, search_results, ranked_results, top_n,
          recommendation, index_out, result, progress, collection, assigned_ids,
          batch_total, adds, since_clear, cleared, query, n_results, hit_ids, similar, calls,
          keys, app, components, shopping_assistant, research_assistant, reply, op, runs>>

store_vars == <<collection, assigned_ids, batch_total, adds, since_clear, cleared>>

search_vars == <<query, n_results, hit_ids, similar>>

session_vars == <<keys, app, components, shopping_assistant, research_assistant, reply, runs>>

\* the fields of the app that a process_query run leaves alone
app_vars == <<keys, app, components, reply, runs>>

(***************************************************************************)
(* Bounds                                                                  *)
(***************************************************************************)
MaxOffers == 3      \* longest offer sequence given to rank_results / generate_recommendation
MaxListings == 2    \* most raw listings in one search response of process_query
MaxAdds == 2        \* most add_products calls on one collection
MaxRuns == 2        \* most process_query calls on one app
MaxChats == 2       \* most answered messages in one assistant's history

(***************************************************************************)
(* Python values                                                           *)
(***************************************************************************)
None == [none |-> TRUE]
Str(s) == [str |-> s]
Num(n) == [num |-> n]
Bool(b) == [bool |-> b]
Obj(f) == [obj |-> f]
List(s) == [list |-> s]

IsNone(v) == "none" \in DOMAIN v
IsStr(v) == "str" \in DOMAIN v
IsNum(v) == "num" \in DOMAIN v
IsBool(v) == "bool" \in DOMAIN v
IsObj(v) == "obj" \in DOMAIN v
IsList(v) == "list" \in DOMAIN v

EmptyDict == [k \in {} |-> None]

\* bool(v)
Truthy(v) ==
    IF IsNone(v) THEN FALSE
    ELSE IF IsStr(v) THEN Len(v.str) > 0
    ELSE IF IsNum(v) THEN v.num # 0
    ELSE IF IsBool(v) THEN v.bool
    ELSE IF IsObj(v) THEN DOMAIN v.obj # {}
    ELSE Len(v.list) > 0

\* d.get(k, default) on a dict d
Get(d, k, default) == IF k \in DOMAIN d THEN d[k] ELSE default

\* d[k] = v on a dict d
Put(d, k, v) == [x \in DOMAIN d \cup {k} |-> IF x = k THEN v ELSE d[x]]

\* outcome of a call: a returned value or a raised exception
Return(v) == [exc |-> "", ret |-> v]
Raise(e) == [exc |-> e, ret |-> None]

(***************************************************************************)
(* config.py                                                               *)
(***************************************************************************)
DEFAULT_REGION == "India"
DEFAULT_CURRENCY == "INR"
MAX_RESULTS == 10

\* Config.validate with the search-service key forgotten
validate_completion_key_only(k) == k.GEMINI_API_KEY # ""

\* Config.validate: both keys are required, an empty string counts as missing
validate(k) == k.GEMINI_API_KEY # "" /\ k.SERPAPI_KEY # ""

(***************************************************************************)
(* The completion service.  A call either raises or returns a text.  A     *)
(* text is a sequence of pieces: a Markdown fence, the word json,          *)
(* whitespace, other prose, or the rendering of one JSON value.            *)
(***************************************************************************)
Fence == [tok |-> "fence"]
WordJson == [tok |-> "json"]
Space == [tok |-> " "]
Prose == [tok |-> "prose"]
Json(v) == [json |-> v]

ServiceError == [kind |-> "raise"]
Text(t) == [kind |-> "text", text |-> t]

\* str.strip(): leading and trailing whitespace removed
RECURSIVE LStrip(_)
LStrip(t) == IF Len(t) > 0 /\ Head(t) = Space THEN LStrip(Tail(t)) ELSE t

RECURSIVE RStrip(_)
RStrip(t) ==
    IF Len(t) > 0 /\ t[Len(t)] = Space THEN RStrip(SubSeq(t, 1, Len(t) - 1)) ELSE t

Strip(t) == RStrip(LStrip(t))

StartsWith(t, prefix) ==
    Len(t) >= Len(prefix) /\ SubSeq(t, 1, Len(prefix)) = prefix

EndsWith(t, suffix) ==
    Len(t) >= Len(suffix) /\ SubSeq(t, Len(t) - Len(suffix) + 1, Len(t)) = suffix

\* the clean-up of the response text before json.loads
StripFences(t) ==
    LET t0 == Strip(t)
        t1 == IF StartsWith(t0, <<Fence, WordJson>>) THEN SubSeq(t0, 3, Len(t0)) ELSE t0
        t2 == IF StartsWith(t1, <<Fence>>) THEN SubSeq(t1, 2, Len(t1)) ELSE t1
        t3 == IF EndsWith(t2, <<Fence>>) THEN SubSeq(t2, 1, Len(t2) - 1) ELSE t2
    IN  Strip(t3)

\* json.loads: the text must be exactly one JSON value
JsonLoads(t) ==
    IF Len(t) = 1 /\ "json" \in DOMAIN t[1]
    THEN Return(t[1].json)
    ELSE Raise("JSONDecodeError")

(***************************************************************************)
(* parser.py                                                               *)
(***************************************************************************)
\* " ".join(parts); a part that is not a str raises TypeError
RECURSIVE JoinStr(_)
JoinStr(parts) ==
    IF Len(parts) = 0 THEN ""
    ELSE IF Len(parts) = 1 THEN parts[1].str
    ELSE parts[1].str \o " " \o JoinStr(Tail(parts))

Join(parts) ==
    IF \E i \in 1..Len(parts) : ~IsStr(parts[i])
    THEN Raise("TypeError")
    ELSE Return(Str(JoinStr(parts)))

\* the list [d[k]] if d.get(k) is truthy, else []
PartOf(d, k) == IF Truthy(Get(d, k, None)) THEN <<d[k]>> ELSE <<>>

\* ProductParser._generate_search_query; parsed_data is any JSON value
_generate_search_query(parsed_data) ==
    IF ~IsObj(parsed_data) THEN Raise("AttributeError")
    ELSE
        LET d == parsed_data.obj
            specs == Get(d, "specifications", Obj(EmptyDict))
        IN  IF ~IsObj(specs) THEN Raise("AttributeError")
            ELSE Join(PartOf(d, "brand") \o PartOf(d, "product") \o PartOf(d, "model")
                      \o PartOf(specs.obj, "storage") \o PartOf(specs.obj, "color"))

\* _create_fallback_structure with delivery_priority defaulting to False
fallback_without_delivery_priority(q) ==
        [product |-> Str(q),
         brand |-> None,
         model |-> None,
         specifications |-> Obj(EmptyDict),
         budget |-> Obj([min |-> None, max |-> None, currency |-> Str(DEFAULT_CURRENCY)]),
         region |-> Str(DEFAULT_REGION),
         preferences |-> Obj([price_priority |-> Str("lowest"),
                              delivery_priority |-> Bool(FALSE),
                              seller_trust |-> Str("any"),
                              condition |-> Str("new")]),
         search_query |-> Str(q)]

\* ProductParser._create_fallback_structure
_create_fallback_structure(q) ==
        [product |-> Str(q),
         brand |-> None,
         model |-> None,
         specifications |-> Obj(EmptyDict),
         budget |-> Obj([min |-> None, max |-> None, currency |-> Str(DEFAULT_CURRENCY)]),
         region |-> Str(DEFAULT_REGION),
         preferences |-> Obj([price_priority |-> Str("lowest"),
                              delivery_priority |-> Bool(TRUE),
                              seller_trust |-> Str("any"),
                              condition |-> Str("new")]),
         search_query |-> Str(q)]

\* ProductParser.parse_query, given the outcome of its completion call
parse_query(q, outcome) ==
    IF outcome.kind = "raise" THEN _create_fallback_structure(q)
    ELSE
        LET loaded == JsonLoads(StripFences(outcome.text))
        IN  IF loaded.exc # "" THEN _create_fallback_structure(q)
            ELSE
                LET sq == _generate_search_query(loaded.ret)
                IN  IF sq.exc # "" THEN _create_fallback_structure(q)
                    ELSE Put(loaded.ret.obj, "search_query", sq.ret)

(***************************************************************************)
(* scraper.py                                                              *)
(***************************************************************************)
\* PriceScraper._normalize_google_shopping_result; item is one raw listing.
\* A listing that is not a dict has no .get: the AttributeError is caught
\* and None returned.
_normalize_google_shopping_result(item) ==
    IF ~IsObj(item) THEN None
    ELSE
        LET d == item.obj
        IN  Obj([title |-> Get(d, "title", Str("")),
                 price |-> Get(d, "extracted_price", Num(0)),
                 price_string |-> Get(d, "price", Str("")),
                 seller |-> Get(d, "source", Str("Unknown")),
                 url |-> Get(d, "link", Str("")),
                 thumbnail |-> Get(d, "thumbnail", Str("")),
                 rating |-> Get(d, "rating", None),
                 reviews |-> Get(d, "reviews", None),
                 delivery |-> Get(d, "delivery", Str(<<>>)),
                 source |-> Str("Google Shopping"),
                 in_stock |-> Bool(TRUE)])

\* the same loop giving up at the first listing that cannot be normalized
RECURSIVE NormalizeUntilFailure(_)
NormalizeUntilFailure(items) ==
    IF Len(items) = 0 THEN <<>>
    ELSE
        LET n == _normalize_google_shopping_result(Head(items))
        IN  IF Truthy(n) THEN <<n.obj>> \o NormalizeUntilFailure(Tail(items)) ELSE <<>>

\* the loop over shopping_results: listings normalized in order, falsy ones left out
RECURSIVE NormalizeAll(_)
NormalizeAll(items) ==
    IF Len(items) = 0 THEN <<>>
    ELSE
        LET n == _normalize_google_shopping_result(Head(items))
        IN  (IF Truthy(n) THEN <<n.obj>> ELSE <<>>) \o NormalizeAll(Tail(items))

\* search_google_shopping without its try/except
search_google_shopping_uncaught(info, outcome) ==
    IF outcome.kind = "raise" THEN Raise("Exception")
    ELSE
        LET shopping_results == Get(outcome.results, "shopping_results", List(<<>>))
        IN  IF ~IsList(shopping_results) THEN Raise("TypeError")
            ELSE Return(NormalizeAll(shopping_results.list))

\* PriceScraper.search_google_shopping, given the outcome of the search call.
\* The region lookup precedes the try block: an unhashable region raises.
search_google_shopping(info, outcome) ==
    LET region == Get(info, "region", Str(DEFAULT_REGION))
    IN  IF IsObj(region) \/ IsList(region) THEN Raise("TypeError")
        ELSE IF outcome.kind = "raise" THEN Return(<<>>)
        ELSE
            LET shopping_results == Get(outcome.results, "shopping_results", List(<<>>))
            IN  IF ~IsList(shopping_results) THEN Return(<<>>)
                ELSE Return(NormalizeAll(shopping_results.list))

\* PriceScraper.search_all_sources
search_all_sources(info, outcome) == search_google_shopping(info, outcome)

\* a search that asks the service again after an error
search_calls_with_retry(info, outcome) ==
    IF outcome.kind = "raise" THEN <<"search_service", "search_service">>
    ELSE <<"search_service">>

\* the queries search_all_sources sends to the search service: the one
\* GoogleSearch(params).get_dict() of search_google_shopping, none when the
\* region lookup raised first
search_calls(info, outcome) ==
    LET region == Get(info, "region", Str(DEFAULT_REGION))
    IN  IF IsObj(region) \/ IsList(region) THEN <<>> ELSE <<"search_service">>

\* str.lower() on a sequence of characters
UpperCase == <<"A", "B", "C", "D", "E", "F", "G", "H", "I", "J", "K", "L", "M",
               "N", "O", "P", "Q", "R", "S", "T", "U", "V", "W", "X", "Y", "Z">>
LowerCase == <<"a", "b", "c", "d", "e", "f", "g", "h", "i", "j", "k", "l", "m",
               "n", "o", "p", "q", "r", "s", "t", "u", "v", "w", "x", "y", "z">>

LowerChar(c) ==
    IF \E i \in 1..Len(UpperCase) : UpperCase[i] = c
    THEN LowerCase[CHOOSE i \in 1..Len(UpperCase) : UpperCase[i] = c]
    ELSE c

Lower(t) == [i \in 1..Len(t) |-> LowerChar(t[i])]

\* sub in t
Contains(sub, t) ==
    \E i \in 1..(Len(t) - Len(sub) + 1) : SubSeq(t, i, i + Len(sub) - 1) = sub

\* A score is the exact rational num/den, den > 0.
Frac(n, d) == [num |-> n, den |-> d]
FracAdd(a, k) == Frac(a.num + k * a.den, a.den)
FracLess(a, b) == a.num * b.den < b.num * a.den
FracEq(a, b) == a.num * b.den = b.num * a.den

\* PriceScraper.rank_results.calculate_score for one offer; item["price"] is
\* compared with 0 (TypeError on None) and item["delivery"] lowered
\* (AttributeError on None) as the code does.
calculate_score(item, price_priority, delivery_priority) ==
    LET price == item.price
        rating == item.rating
        delivery == item.delivery
        s1 == IF price.num > 0 /\ price_priority = Str("lowest")
              THEN Frac(10000, price.num + 1)
              ELSE Frac(0, 1)
        s2 == IF Truthy(rating) THEN FracAdd(s1, rating.num * 10) ELSE s1
        low == Lower(delivery.str)
        s3 == IF Contains(<<"f", "r", "e", "e">>, low) THEN FracAdd(s2, 50) ELSE s2
        s4 == IF Contains(<<"f", "a", "s", "t">>, low)
                 \/ Contains(<<"e", "x", "p", "r", "e", "s", "s">>, low)
              THEN FracAdd(s3, 30)
              ELSE s3
    IN  IF ~IsNum(price) THEN Raise("TypeError")
        ELSE IF ~Truthy(delivery_priority) THEN Return(s2)
        ELSE IF ~IsStr(delivery) THEN Raise("AttributeError")
        ELSE Return(s4)

\* sorted(results, key=..., reverse=True) on offers paired with their keys:
\* descending by key, equal keys in input order
RECURSIVE InsertByScore(_, _)
InsertByScore(x, s) ==
    IF Len(s) = 0 THEN <<x>>
    ELSE IF FracLess(Head(s).key, x.key) THEN <<x>> \o s
    ELSE <<Head(s)>> \o InsertByScore(x, Tail(s))

\* the same sort without reverse=True: ascending by key
RECURSIVE InsertAscending(_, _)
InsertAscending(x, s) ==
    IF Len(s) = 0 THEN <<x>>
    ELSE IF FracLess(x.key, Head(s).key) THEN <<x>> \o s
    ELSE <<Head(s)>> \o InsertAscending(x, Tail(s))

RECURSIVE SortAscending(_)
SortAscending(keyed) ==
    IF Len(keyed) = 0 THEN <<>>
    ELSE InsertAscending(keyed[Len(keyed)], SortAscending(SubSeq(keyed, 1, Len(keyed) - 1)))

RECURSIVE SortByScore(_)
SortByScore(keyed) ==
    IF Len(keyed) = 0 THEN <<>>
    ELSE InsertByScore(keyed[Len(keyed)], SortByScore(SubSeq(keyed, 1, Len(keyed) - 1)))

\* PriceScraper.rank_results; prefs is the preferences argument, any value
rank_results(results, prefs) ==
    IF Len(results) = 0 THEN Return(<<>>)
    ELSE IF ~IsObj(prefs) THEN Raise("AttributeError")
    ELSE
        LET price_priority == Get(prefs.obj, "price_priority", Str("lowest"))
            delivery_priority == Get(prefs.obj, "delivery_priority", Bool(FALSE))
            scored == [i \in 1..Len(results) |->
                          calculate_score(results[i], price_priority, delivery_priority)]
            bad == {i \in 1..Len(results) : scored[i].exc # ""}
            keyed == [i \in 1..Len(results) |-> [item |-> results[i], key |-> scored[i].ret]]
            ranked == SortByScore(keyed)
        IN  IF bad # {}
            THEN Raise(scored[CHOOSE i \in bad : \A j \in bad : i <= j].exc)
            ELSE Return([i \in 1..Len(ranked) |-> ranked[i].item])

(***************************************************************************)
(* recommender.py                                                          *)
(***************************************************************************)
Min(a, b) == IF a <= b THEN a ELSE b
Max(a, b) == IF a >= b THEN a ELSE b

\* the slice seq[:n], n of either sign
Slice(seq, n) ==
    IF n >= 0 THEN SubSeq(seq, 1, Min(n, Len(seq)))
    ELSE SubSeq(seq, 1, Max(Len(seq) + n, 0))

\* ProductRecommender._extract_user_intent reads specifications, budget and
\* preferences as dicts; the exception it raises on another value, "" if none.
\* The intent text itself only goes into the prompt.
_extract_user_intent(info) ==
    LET specs == Get(info, "specifications", Obj(EmptyDict))
        budget == Get(info, "budget", Obj(EmptyDict))
        prefs == Get(info, "preferences", Obj(EmptyDict))
    IN  IF Truthy(specs) /\ ~IsObj(specs) THEN "AttributeError"
        ELSE IF ~IsObj(budget) THEN "AttributeError"
        ELSE IF ~IsObj(prefs) THEN "AttributeError"
        ELSE ""

\* the sort key of the fallback: (-float(rating or 0), price)
RatingKey(x) == IF Truthy(x.rating) THEN 0 - x.rating.num ELSE 0

\* tuple comparison key(a) < key(b); the prices are compared only when the
\* ratings are equal and the prices differ
KeyLess(a, b) ==
    IF RatingKey(a) # RatingKey(b) THEN RatingKey(a) < RatingKey(b)
    ELSE IF a.price = b.price THEN FALSE
    ELSE a.price.num < b.price.num

\* The comparison of two keys raises TypeError when the ratings are equal and
\* one price is None and the other a number.  A sort cannot order two such
\* candidates without comparing a None price with a number, so sorted()
\* raises exactly when the candidates hold such a pair.
Incomparable(a, b) ==
    RatingKey(a) = RatingKey(b) /\ a.price # b.price /\ (IsNone(a.price) \/ IsNone(b.price))

RECURSIVE InsertByKey(_, _)
InsertByKey(x, s) ==
    IF Len(s) = 0 THEN <<x>>
    ELSE IF KeyLess(x, Head(s)) THEN <<x>> \o s
    ELSE <<Head(s)>> \o InsertByKey(x, Tail(s))

\* sorted(candidates, key=...): ascending by key, equal keys in input order
RECURSIVE SortByKey(_)
SortByKey(c) ==
    IF Len(c) = 0 THEN <<>>
    ELSE InsertByKey(c[Len(c)], SortByKey(SubSeq(c, 1, Len(c) - 1)))

\* a fallback that gives up whatever it is given
fallback_always_error(products, n) ==
    Return([status |-> Str("error"),
            message |-> Str("Unable to generate recommendations"),
            products |-> List(<<>>)])

\* ProductRecommender._create_fallback_recommendation
_create_fallback_recommendation(products, n) ==
    IF Len(products) = 0
    THEN Return([status |-> Str("error"),
                 message |-> Str("Unable to generate recommendations"),
                 products |-> List(<<>>)])
    ELSE
        LET c == Slice(products, n)
        IN  IF \E i, j \in 1..Len(c) : Incomparable(c[i], c[j])
            THEN Raise("TypeError")
            ELSE Return(
                [status |-> Str("success"),
                 best_overall |-> Obj([index |-> Num(0),
                                       reason |-> Str("Best combination of price and rating")]),
                 analysis |-> Str("Found " \o ToString(Len(products))
                                  \o " options. Top recommendation based on price and ratings."),
                 products |-> List(SortByKey(c)),
                 considerations |-> List(<<Str("Price"), Str("Seller rating"),
                                           Str("Availability")>>)])

\* ProductRecommender.generate_recommendation past its empty-input return:
\* the prompt is built, the completion service called once and its answer
\* parsed; calls counts the completion calls made
recommend_from_completion(info, results, n, outcome) ==
    IF _extract_user_intent(info) # ""
    THEN [exc |-> _extract_user_intent(info), calls |-> 0, ret |-> None]
    ELSE
        LET loaded == IF outcome.kind = "raise" THEN Raise("Exception")
                      ELSE JsonLoads(StripFences(outcome.text))
            fallback == _create_fallback_recommendation(results, n)
        IN  IF loaded.exc = "" /\ IsObj(loaded.ret)
            THEN [exc |-> "", calls |-> 1,
                  ret |-> Put(Put(loaded.ret.obj, "products", List(Slice(results, n))),
                              "status", Str("success"))]
            ELSE [exc |-> fallback.exc, calls |-> 1, ret |-> fallback.ret]

\* generate_recommendation without its empty-input return
generate_recommendation_unguarded(info, results, n, outcome) ==
    recommend_from_completion(info, results, n, outcome)

\* ProductRecommender.generate_recommendation, given the outcome the
\* completion service would give
generate_recommendation(info, results, n, outcome) ==
    IF Len(results) = 0
    THEN [exc |-> "", calls |-> 0,
          ret |-> [status |-> Str("no_results"),
                   message |-> Str("No products found matching your criteria."),
                   recommendations |-> List(<<>>),
                   analysis |-> Str("")]]
    ELSE recommend_from_completion(info, results, n, outcome)

(***************************************************************************)
(* Inputs: raw queries, completion-service outcomes, raw listings          *)
(***************************************************************************)
RawQueries == {"", "red phone"}

Absent == [absent |-> TRUE]

\* the dict holding the fields of full that are not Absent
MkObj(full) == Obj([k \in {x \in DOMAIN full : full[x] # Absent} |-> full[k]])

FullPreferences ==
    Obj([price_priority |-> Str("lowest"), delivery_priority |-> Bool(TRUE),
         seller_trust |-> Str("any"), condition |-> Str("new")])

FullBudget == Obj([min |-> None, max |-> Num(50000), currency |-> Str("INR")])

\* JSON objects the completion service may answer parse_query with:
\* any subset of the fields, with null, empty, non-string and nested values
ParsedObjects ==
    {MkObj(full) : full \in
        [brand : {Absent, None, Str("Acme")},
         product : {Absent, Str(""), Str("phone"), Num(7)},
         model : {Absent, Str("X1")},
         specifications : {Absent, None, Obj([storage |-> Str("128GB"), color |-> None])},
         budget : {Absent, None, FullBudget},
         region : {Absent, Str("USA")},
         preferences : {Absent, None, FullPreferences}]}

\* the ways a body is wrapped in a response text
Wrappings(body) ==
    {<<body>>,
     <<Fence, WordJson, Space, body, Space, Fence>>,
     <<Space, Fence, body, Fence, Space>>,
     <<Fence, WordJson, body>>,
     <<Prose, body>>}

ParserOutcomes ==
    {ServiceError, Text(<<>>), Text(<<Prose>>), Text(<<Fence, WordJson, Prose, Fence>>)}
    \cup {Text(w) : w \in UNION {Wrappings(Json(v)) :
                        v \in ParsedObjects \cup {None, Num(3), List(<<>>)}}}

\* completion outcomes of the whole pipeline's parse step
PipelineParseOutcomes ==
    {ServiceError,
     Text(<<Prose>>),
     Text(<<Json(Obj(EmptyDict))>>),
     Text(<<Fence, WordJson, Space,
            Json(Obj([product |-> Str("phone"), brand |-> None,
                      specifications |-> Obj([storage |-> Str("128GB")]),
                      budget |-> FullBudget, region |-> Str("USA"),
                      preferences |-> FullPreferences])),
            Space, Fence>>),
     Text(<<Json(Obj([product |-> Str("phone"), preferences |-> None]))>>),
     Text(<<Json(Obj([product |-> Str("phone"), budget |-> None,
                      preferences |-> Obj([price_priority |-> Str("premium")])]))>>)}

\* completion outcomes of generate_recommendation
RecommendOutcomes ==
    {ServiceError,
     Text(<<Prose>>),
     Text(<<Json(List(<<>>))>>),
     Text(<<Fence, WordJson, Space,
            Json(Obj([best_overall |-> Obj([index |-> Num(0), reason |-> Str("r")]),
                      analysis |-> Str("a")])),
            Space, Fence>>),
     Text(<<Json(Obj([best_overall |-> Obj([index |-> Num(0), reason |-> Str("r")]),
                      best_value |-> Obj([index |-> Num(7), reason |-> Str("r")]),
                      analysis |-> Str("a")]))>>)}

Free == <<"F", "r", "e", "e">>
FAST == <<"F", "A", "S", "T">>
Express == <<"E", "x", "p", "r", "e", "s", "s">>
Friday == <<"F", "r", "i", "d", "a", "y">>

\* raw listings of the offer search service
RawListings ==
    {Obj([title |-> Str("A"), extracted_price |-> Num(99), price |-> Str("$99"),
          source |-> Str("ShopA")]),
     Obj([title |-> Str("B"), extracted_price |-> Num(199), price |-> Str("$199"),
          rating |-> Num(5), delivery |-> Str(Friday)]),
     Obj([title |-> Str("C"), rating |-> Num(4), delivery |-> Str(Free)]),
     Obj([title |-> Str("D"), extracted_price |-> None, rating |-> None,
          delivery |-> Str(FAST)]),
     Obj([title |-> Str("E"), extracted_price |-> Num(99), rating |-> Num(4),
          delivery |-> None]),
     Obj([title |-> Str("F"), extracted_price |-> Num(199), delivery |-> Str(Express)]),
     Str("junk")}

RECURSIVE SeqsUpTo(_, _)
SeqsUpTo(S, n) ==
    IF n = 0 THEN {<<>>}
    ELSE LET shorter == SeqsUpTo(S, n - 1)
         IN  shorter \cup {Append(q, x) : q \in {t \in shorter : Len(t) = n - 1}, x \in S}

\* outcomes of the offer search service
SearchError == [kind |-> "raise"]
SearchResponse(d) == [kind |-> "dict", results |-> d]

SearchOutcomes ==
    {SearchError, SearchResponse(EmptyDict), SearchResponse([shopping_results |-> None])}
    \cup {SearchResponse([shopping_results |-> List(l)]) :
            l \in SeqsUpTo(RawListings, MaxListings)}

\* three listings that carry a price and neither a rating nor a delivery text
PricedListings ==
    {Obj([title |-> Str("P45"), extracted_price |-> Num(45000)]),
     Obj([title |-> Str("P60"), extracted_price |-> Num(60000)]),
     Obj([title |-> Str("P49"), extracted_price |-> Num(49000)])}

\* the search responses that list the three of them, in every order
PricedOutcomes ==
    {SearchResponse([shopping_results |-> List(l)]) :
        l \in {q \in [1..3 -> PricedListings] : \A i, j \in 1..3 : q[i] = q[j] => i = j}}

\* a response with one listing more than the num parameter asked for
OverfullResponse ==
    SearchResponse([shopping_results |->
        List([i \in 1..(MAX_RESULTS + 1) |-> Obj([title |-> Str("A"),
                                                  extracted_price |-> Num(99)])])])

\* outcomes of the search call in one search_all_sources call
ScraperOutcomes ==
    {SearchError, SearchResponse(EmptyDict), SearchResponse([shopping_results |-> None]),
     OverfullResponse}
    \cup {SearchResponse([shopping_results |-> List(l)]) :
            l \in SeqsUpTo(RawListings, MaxOffers)}

\* the offers the aggregator can produce
Offers == {_normalize_google_shopping_result(r).obj : r \in {x \in RawListings : IsObj(x)}}

OfferSeqs == SeqsUpTo(Offers, MaxOffers)

PreferenceValues ==
    {None, Obj(EmptyDict), FullPreferences,
     Obj([price_priority |-> Str("lowest")]),
     Obj([price_priority |-> Str("premium"), delivery_priority |-> Bool(FALSE)])}

\* structured requests given to generate_recommendation
RequestValues ==
    {parse_query("red phone", o) : o \in
        {ServiceError,
         Text(<<Json(Obj(EmptyDict))>>),
         Text(<<Json(Obj([product |-> Str("phone"), budget |-> None]))>>)}}

TopNs == {-1, 0, 1, 2, 5}

(***************************************************************************)
(* vector_db.py.  A document of the collection is the id add_products gave *)
(* it, its searchable text and its metadata.  The clock is read once for   *)
(* every offer of a batch; times[i] is the millisecond read for the i-th   *)
(* offer.  The embedding model is outside the program: a query draws the   *)
(* distance the store reports for each searchable text, in tenths.         *)
(***************************************************************************)
\* _create_document_text: the text is its parts, joined by " | " in the code;
\* the delivery part is there only for a truthy delivery
_create_document_text(product) ==
    [title |-> product.title,
     seller |-> product.seller,
     price_string |-> product.price_string,
     rating |-> product.rating,
     delivery |-> IF Truthy(product.delivery) THEN <<product.delivery>> ELSE <<>>]

\* text[:n] of a str
Truncate(v, n) == Str(IF Len(v.str) <= n THEN v.str ELSE SubSeq(v.str, 1, n))

\* the metadata dict of add_products
ProductMetadata(product) ==
    [title |-> Truncate(product.title, 500),
     price |-> product.price,
     seller |-> Truncate(product.seller, 100),
     rating |-> IF Truthy(product.rating) THEN product.rating ELSE Num(0),
     url |-> Truncate(product.url, 500),
     source |-> product.source]

\* f"product_{int(time.time() * 1000)}_{i}"
ProductId(ms, i) == "product_" \o ToString(ms) \o "_" \o ToString(i)

\* the ids of a batch; enumerate counts from 0
BatchIds(products, times) ==
    [i \in 1..Len(products) |-> ProductId(times[i], i - 1)]

StoredIds(coll) == {coll[k].id : k \in 1..Len(coll)}

\* collection.add: the store never holds an id twice.  Given an id it
\* already holds, it either skips that document or rejects the whole call,
\* depending on the release of the store.
collection_add(coll, docs, policy) ==
    LET fresh == SelectSeq(docs, LAMBDA d : d.id \notin StoredIds(coll))
    IN  IF fresh # docs /\ policy = "reject" THEN Raise("IDAlreadyExistsError")
        ELSE Return(coll \o fresh)

\* add_products(products) on the collection coll.  outcome = "raise": the
\* embedding model or the store raised.  Returns the exception, the new
\* collection and the ids handed to collection.add.
add_products(coll, products, times, outcome, policy) ==
    IF Len(products) = 0 THEN [exc |-> "", collection |-> coll, ids |-> <<>>]
    ELSE LET ids == BatchIds(products, times)
             docs == [i \in 1..Len(products) |->
                        [id |-> ids[i],
                         document |-> _create_document_text(products[i]),
                         metadata |-> ProductMetadata(products[i])]]
             r == collection_add(coll, docs, policy)
         IN  IF outcome = "raise" THEN
                 [exc |-> "Exception", collection |-> coll, ids |-> <<>>]
             ELSE IF r.exc # "" THEN
                 [exc |-> r.exc, collection |-> coll, ids |-> ids]
             ELSE [exc |-> "", collection |-> r.ret, ids |-> ids]

\* clear_database that deletes nothing
clear_database_kept(coll) == coll

\* clear_database: delete_collection, then get_or_create_collection
clear_database(coll) == <<>>

\* collection.query: the documents in the order of their distance, nearest
\* first, documents at the same distance in insertion order
RECURSIVE InsertByDistance(_, _, _)
InsertByDistance(x, s, dist) ==
    IF Len(s) = 0 THEN <<x>>
    ELSE IF dist[x.document] < dist[Head(s).document] THEN <<x>> \o s
    ELSE <<Head(s)>> \o InsertByDistance(x, Tail(s), dist)

RECURSIVE SortByDistance(_, _)
SortByDistance(coll, dist) ==
    IF Len(coll) = 0 THEN <<>>
    ELSE InsertByDistance(coll[Len(coll)], SortByDistance(SubSeq(coll, 1, Len(coll) - 1), dist),
                          dist)

\* search_similar_products(query, n_results) on the collection coll; dist
\* gives the distance of each searchable text from the query.  outcome =
\* "raise": the embedding model or the store raised.  Returns the ids the
\* store reported and the list the method builds from them.
search_similar_products(coll, n, dist, outcome) ==
    IF outcome = "raise" THEN [exc |-> "Exception", ids |-> <<>>, ret |-> <<>>]
    ELSE
        LET sorted == SortByDistance(coll, dist)
            nearest == SubSeq(sorted, 1, Min(n, Len(sorted)))
        IN  [exc |-> "",
             ids |-> [i \in 1..Len(nearest) |-> nearest[i].id],
             ret |-> [i \in 1..Len(nearest) |->
                        [title |-> nearest[i].metadata.title,
                         price |-> nearest[i].metadata.price,
                         seller |-> nearest[i].metadata.seller,
                         rating |-> nearest[i].metadata.rating,
                         url |-> nearest[i].metadata.url,
                         source |-> nearest[i].metadata.source,
                         document |-> nearest[i].document,
                         similarity_score |->
                             Frac(10 - dist[nearest[i].document], 10)]]]

\* distances the store can report, in tenths: 0.2 and 1.2
Distances == {2, 12}

\* the searchable texts of a collection
DocumentsOf(coll) == {coll[k].document : k \in 1..Len(coll)}

\* query texts and n_results values of the similarity queries
Queries == {"A"}

NResults == {1, 3}

\* milliseconds the clock can show when add_products reads it
ClockReadings == {1, 2}

\* the reads of one call: the clock does not go back inside the loop
ClockReads(products) ==
    {t \in [1..Len(products) -> ClockReadings] :
        \A i, j \in 1..Len(products) : i < j => t[i] <= t[j]}

IndexOutcomes == {"ok", "raise"}

\* offers given to add_products, and the batches made of them
IndexOffers ==
    {_normalize_google_shopping_result(r).obj : r \in
        {Obj([title |-> Str("A"), extracted_price |-> Num(99)]),
         Obj([title |-> Str("B"), extracted_price |-> Num(199), rating |-> Num(5)])}}

IndexBatches ==
    {<<>>} \cup {<<a>> : a \in IndexOffers} \cup {<<a, b>> : a, b \in IndexOffers}

DuplicatePolicies == {"skip", "reject"}

\* update_progress that never reaches the callback
update_progress_uncalled(done, percent) == done

\* progress_callback(step, progress) of process_query
update_progress(done, percent) == Append(done, percent)

StoreInit ==
    /\ collection = <<>>
    /\ assigned_ids = <<>>
    /\ batch_total = 0
    /\ adds = 0
    /\ since_clear = {}
    /\ cleared = 0

\* no similarity query made yet
SearchInit ==
    /\ query = ""
    /\ n_results = 0
    /\ hit_ids = <<>>
    /\ similar = <<>>

\* the list a similarity query returned is gone with the next call
SearchReset ==
    /\ query' = ""
    /\ n_results' = 0
    /\ hit_ids' = <<>>
    /\ similar' = <<>>

\* a constructed application with both credentials and no assistant yet
SessionInit ==
    /\ keys = [GEMINI_API_KEY |-> "key", SERPAPI_KEY |-> "key"]
    /\ app = "ready"
    /\ components = {"parser", "scraper", "vector_db", "recommender"}
    /\ shopping_assistant = None
    /\ research_assistant = None
    /\ reply = ""
    /\ op = ""
    /\ runs = 0

(***************************************************************************)
(* ParserSpec: one call of ProductParser.parse_query                       *)
(***************************************************************************)
ParserInit ==
    /\ pc = "parse"
    /\ exc = ""
    /\ user_query \in RawQueries
    /\ completions = <<>>
    /\ search_out = None
    /\ product_info = None
    /\ preferences = None
    /\ search_results = <<>>
    /\ ranked_results = <<>>
    /\ top_n = 0
    /\ recommendation = None
    /\ index_out = ""
    /\ result = None
    /\ progress = <<>>
    /\ StoreInit
    /\ SearchInit
    /\ calls = <<>>
    /\ SessionInit

ParseQuery ==
    /\ pc = "parse"
    /\ \E outcome \in ParserOutcomes :
        /\ completions' = <<outcome>>
        /\ product_info' = parse_query(user_query, outcome)
    /\ pc' = "done"
    /\ UNCHANGED <<exc, user_query, search_out, preferences, search_results,
                   ranked_results, top_n, recommendation, index_out, result,
                   progress, store_vars,
                   search_vars, calls, session_vars, op>>

ParserNext == ParseQuery

ParserSpec == ParserInit /\ [][ParserNext]_vars

(***************************************************************************)
(* RankSpec: one call of PriceScraper.rank_results                         *)
(***************************************************************************)
RankInit ==
    /\ pc = "rank"
    /\ exc = ""
    /\ user_query = ""
    /\ completions = <<>>
    /\ search_out = None
    /\ product_info = None
    /\ preferences \in PreferenceValues
    /\ search_results \in OfferSeqs
    /\ ranked_results = <<>>
    /\ top_n = 0
    /\ recommendation = None
    /\ index_out = ""
    /\ result = None
    /\ progress = <<>>
    /\ StoreInit
    /\ SearchInit
    /\ calls = <<>>
    /\ SessionInit

RankResults ==
    /\ pc = "rank"
    /\ LET r == rank_results(search_results, preferences)
       IN  /\ exc' = r.exc
           /\ ranked_results' = IF r.exc = "" THEN r.ret ELSE <<>>
           /\ pc' = IF r.exc = "" THEN "done" ELSE "raised"
    /\ UNCHANGED <<user_query, completions, search_out, product_info, preferences,
                   search_results, top_n, recommendation, index_out, result,
                   progress, store_vars,
                   search_vars, calls, session_vars, op>>

RankNext == RankResults

RankSpec == RankInit /\ [][RankNext]_vars

(***************************************************************************)
(* ScraperSpec: one call of PriceScraper.search_all_sources                *)
(***************************************************************************)
ScraperInit ==
    /\ pc = "search"
    /\ exc = ""
    /\ user_query = "red phone"
    /\ completions = <<>>
    /\ search_out = None
    /\ product_info \in RequestValues
    /\ preferences = None
    /\ search_results = <<>>
    /\ ranked_results = <<>>
    /\ top_n = 0
    /\ recommendation = None
    /\ index_out = ""
    /\ result = None
    /\ progress = <<>>
    /\ StoreInit
    /\ SearchInit
    /\ calls = <<>>
    /\ SessionInit

SearchAllSources ==
    /\ pc = "search"
    /\ \E outcome \in ScraperOutcomes :
        LET r == search_all_sources(product_info, outcome)
        IN  /\ search_out' = outcome
            /\ exc' = r.exc
            /\ search_results' = r.ret
            /\ pc' = IF r.exc = "" THEN "done" ELSE "raised"
    /\ UNCHANGED <<user_query, completions, product_info, preferences, ranked_results,
                   top_n, recommendation, index_out, result, progress, store_vars,
                   search_vars, calls, session_vars, op>>

ScraperNext == SearchAllSources

ScraperSpec == ScraperInit /\ [][ScraperNext]_vars

(***************************************************************************)
(* VectorSpec: add_products, clear_database and search_similar_products    *)
(* calls on one collection, one after another or from concurrent callers;  *)
(* a call is one step                                                      *)
(***************************************************************************)
VectorInit ==
    /\ pc = "idle"
    /\ exc = ""
    /\ user_query = ""
    /\ completions = <<>>
    /\ search_out = None
    /\ product_info = None
    /\ preferences = None
    /\ search_results = <<>>
    /\ ranked_results = <<>>
    /\ top_n = 0
    /\ recommendation = None
    /\ index_out = ""
    /\ result = None
    /\ progress = <<>>
    /\ StoreInit
    /\ SearchInit
    /\ calls = <<>>
    /\ SessionInit

AddProducts ==
    /\ pc = "idle"
    /\ adds < MaxAdds
    /\ \E products \in IndexBatches, outcome \in IndexOutcomes,
          policy \in DuplicatePolicies :
        \E times \in ClockReads(products) :
            LET r == add_products(collection, products, times, outcome, policy)
            IN  /\ index_out' = IF r.exc = "" THEN "ok" ELSE "raise"
                /\ exc' = r.exc
                /\ collection' = r.collection
                /\ assigned_ids' = assigned_ids \o r.ids
                /\ batch_total' = IF r.exc = "" THEN batch_total + Len(products)
                                   ELSE batch_total
                /\ adds' = adds + 1
                /\ since_clear' = since_clear \cup
                        {r.collection[k] : k \in (Len(collection) + 1)..Len(r.collection)}
                /\ UNCHANGED cleared
    /\ op' = "add_products"
    /\ SearchReset
    /\ UNCHANGED <<pc, user_query, completions, search_out, product_info, preferences,
                   search_results, ranked_results, top_n, recommendation, result,
                   progress, calls, session_vars>>

ClearDatabase ==
    /\ pc = "idle"
    /\ \E outcome \in IndexOutcomes :
        IF outcome = "raise" THEN
            /\ exc' = "Exception"
            /\ UNCHANGED store_vars
        ELSE
            /\ exc' = ""
            /\ collection' = clear_database(collection)
            /\ assigned_ids' = <<>>
            /\ batch_total' = 0
            /\ since_clear' = {}
            /\ cleared' = cleared + Len(collection)
            /\ UNCHANGED adds
    /\ op' = "clear_database"
    /\ SearchReset
    /\ UNCHANGED <<pc, user_query, completions, search_out, product_info, preferences,
                   search_results, ranked_results, top_n, recommendation, index_out,
                   result, progress, calls, session_vars>>

SearchSimilarProducts ==
    /\ pc = "idle"
    /\ \E q \in Queries, n \in NResults :
        /\ query' = q
        /\ n_results' = n
        /\ \/ \E dist \in [DocumentsOf(collection) -> Distances] :
                LET r == search_similar_products(collection, n, dist, "ok")
                IN  /\ exc' = r.exc
                    /\ hit_ids' = r.ids
                    /\ similar' = r.ret
           \/ LET r == search_similar_products(collection, n, <<>>, "raise")
              IN  /\ exc' = r.exc
                  /\ hit_ids' = r.ids
                  /\ similar' = r.ret
    /\ op' = "search_similar_products"
    /\ UNCHANGED <<pc, user_query, completions, search_out, product_info, preferences,
                   search_results, ranked_results, top_n, recommendation, index_out,
                   result, progress, store_vars, calls, session_vars>>

VectorNext == AddProducts \/ ClearDatabase \/ SearchSimilarProducts

VectorSpec == VectorInit /\ [][VectorNext]_vars

(***************************************************************************)
(* RecommenderSpec: one call of ProductRecommender.generate_recommendation *)
(***************************************************************************)
RecommenderInit ==
    /\ pc = "recommend"
    /\ exc = ""
    /\ user_query = ""
    /\ completions = <<>>
    /\ search_out = None
    /\ product_info \in RequestValues
    /\ preferences = None
    /\ search_results \in OfferSeqs
    /\ ranked_results = <<>>
    /\ top_n \in TopNs
    /\ recommendation = None
    /\ index_out = ""
    /\ result = None
    /\ progress = <<>>
    /\ StoreInit
    /\ SearchInit
    /\ calls = <<>>
    /\ SessionInit

GenerateRecommendation ==
    /\ pc = "recommend"
    /\ \E outcome \in RecommendOutcomes :
        LET r == generate_recommendation(product_info, search_results, top_n, outcome)
        IN  /\ completions' = IF r.calls = 1 THEN <<outcome>> ELSE <<>>
            /\ exc' = r.exc
            /\ recommendation' = r.ret
            /\ pc' = IF r.exc = "" THEN "done" ELSE "raised"
    /\ UNCHANGED <<user_query, search_out, product_info, preferences, search_results,
                   ranked_results, top_n, index_out, result, progress, store_vars,
                   search_vars, calls, session_vars, op>>

RecommenderNext == GenerateRecommendation

RecommenderSpec == RecommenderInit /\ [][RecommenderNext]_vars

(***************************************************************************)
(* Spec: one run of PriceComparisonApp.process_query (app.py), a step per  *)
(* stage; the outcome of each external service is chosen when it is called *)
(***************************************************************************)
PIPELINE_TOP_N == 5

Init ==
    /\ pc = "parse"
    /\ exc = ""
    /\ user_query \in RawQueries
    /\ completions = <<>>
    /\ search_out = None
    /\ product_info = None
    /\ preferences = None
    /\ search_results = <<>>
    /\ ranked_results = <<>>
    /\ top_n = PIPELINE_TOP_N
    /\ recommendation = None
    /\ index_out = ""
    /\ result = None
    /\ progress = <<>>
    /\ StoreInit
    /\ SearchInit
    /\ calls = <<>>
    /\ SessionInit

\* ShoppingAssistant(context) and ResearchAssistant(vector_db) as
\* _initialize_agents creates them
ShoppingAssistant(context) == [context |-> context, conversation_history |-> <<>>]

ResearchAssistant == [conversation_history |-> <<>>]

\* Step 1: self.parser.parse_query(user_query), the completion outcome drawn
\* from outcomes
ParseStage(outcomes) ==
    /\ pc = "parse"
    /\ \E outcome \in outcomes :
        /\ completions' = Append(completions, outcome)
        /\ product_info' = parse_query(user_query, outcome)
    /\ progress' = update_progress(progress, 10)
    /\ calls' = Append(calls, "interpret")
    /\ pc' = "search"
    /\ UNCHANGED <<exc, user_query, search_out, preferences, search_results,
                   ranked_results, top_n, recommendation, index_out, result,
                   store_vars, search_vars, session_vars, op>>

StepParse == ParseStage(PipelineParseOutcomes)

\* Step 2: self.scraper.search_all_sources(product_info), and the return
\* taken when it yields no offers
SearchStage(outcomes) ==
    /\ pc = "search"
    /\ \E outcome \in outcomes :
        LET r == search_all_sources(product_info, outcome)
        IN  /\ search_out' = outcome
            /\ calls' = calls \o <<"aggregate">> \o search_calls(product_info, outcome)
            /\ exc' = r.exc
            /\ search_results' = r.ret
            /\ IF r.exc # "" THEN
                    /\ pc' = "raised"
                    /\ progress' = update_progress(progress, 30)
                    /\ UNCHANGED <<recommendation, result>>
               ELSE IF Len(r.ret) = 0 THEN
                    /\ pc' = "returned"
                    /\ progress' = update_progress(update_progress(progress, 30), 100)
                    /\ recommendation' = [status |-> Str("no_results")]
                    /\ result' = <<product_info, [status |-> Str("no_results")], <<>>>>
               ELSE
                    /\ pc' = "rank"
                    /\ progress' = update_progress(progress, 30)
                    /\ UNCHANGED <<recommendation, result>>
    /\ UNCHANGED <<user_query, completions, product_info, preferences, ranked_results,
                   top_n, index_out, store_vars, search_vars, session_vars, op>>

StepSearch == SearchStage(SearchOutcomes \cup PricedOutcomes)

\* Step 3: self.scraper.rank_results(search_results, preferences)
StepRank ==
    /\ pc = "rank"
    /\ LET prefs == Get(product_info, "preferences", Obj(EmptyDict))
           r == rank_results(search_results, prefs)
       IN  /\ preferences' = prefs
           /\ exc' = r.exc
           /\ ranked_results' = IF r.exc = "" THEN r.ret ELSE <<>>
           /\ pc' = IF r.exc = "" THEN "index" ELSE "raised"
    /\ progress' = update_progress(progress, 50)
    /\ calls' = Append(calls, "rank")
    /\ UNCHANGED <<user_query, completions, search_out, product_info, search_results,
                   top_n, recommendation, index_out, result, store_vars, search_vars,
                   session_vars, op>>

\* Step 4: self.vector_db.add_products(ranked_results); the embedding model
\* or the vector store may raise, and nothing catches it; the outcome, the
\* store's duplicate policy and the clock's readings are drawn from the arguments
IndexStage(outcomes, policies, reads) ==
    /\ pc = "index"
    /\ \E outcome \in outcomes, policy \in policies, times \in reads :
        LET r == add_products(collection, ranked_results, times, outcome, policy)
        IN  /\ index_out' = IF r.exc = "" THEN "ok" ELSE "raise"
            /\ exc' = r.exc
            /\ pc' = IF r.exc = "" THEN "recommend" ELSE "raised"
            /\ collection' = r.collection
            /\ assigned_ids' = assigned_ids \o r.ids
            /\ batch_total' = IF r.exc = "" THEN batch_total + Len(ranked_results)
                               ELSE batch_total
            /\ adds' = adds + 1
            /\ since_clear' = since_clear \cup
                    {r.collection[k] : k \in (Len(collection) + 1)..Len(r.collection)}
            /\ UNCHANGED cleared
    /\ progress' = update_progress(progress, 60)
    /\ calls' = Append(calls, "index")
    /\ UNCHANGED <<user_query, completions, search_out, product_info, preferences,
                   search_results, ranked_results, top_n, recommendation, result,
                   search_vars, session_vars, op>>

StepIndex == IndexStage(IndexOutcomes, DuplicatePolicies, ClockReads(ranked_results))

\* Steps 5 and 6: generate_recommendation(product_info, ranked_results, top_n=5),
\* then _initialize_agents and the return of the tuple
RecommendStage(outcomes) ==
    /\ pc = "recommend"
    /\ \E outcome \in outcomes :
        LET r == generate_recommendation(product_info, ranked_results, top_n, outcome)
        IN  /\ completions' = IF r.calls = 1 THEN Append(completions, outcome)
                              ELSE completions
            /\ exc' = r.exc
            /\ IF r.exc # "" THEN
                    /\ pc' = "raised"
                    /\ progress' = update_progress(progress, 80)
                    /\ calls' = Append(calls, "synthesize")
                    /\ UNCHANGED <<recommendation, result, shopping_assistant,
                                   research_assistant>>
               ELSE
                    /\ pc' = "returned"
                    /\ progress' = update_progress(update_progress(
                                        update_progress(progress, 80), 90), 100)
                    /\ calls' = calls \o <<"synthesize", "initialize_agents">>
                    /\ recommendation' = r.ret
                    /\ shopping_assistant' =
                            ShoppingAssistant([product_info |-> product_info,
                                               recommendation |-> r.ret])
                    /\ research_assistant' = ResearchAssistant
                    /\ result' = <<product_info, r.ret, ranked_results>>
    /\ UNCHANGED <<user_query, search_out, product_info, preferences, search_results,
                   ranked_results, top_n, index_out, store_vars, search_vars,
                   app_vars, op>>

StepRecommend == RecommendStage(RecommendOutcomes)

Next == StepParse \/ StepSearch \/ StepRank \/ StepIndex \/ StepRecommend

Spec == Init /\ [][Next]_vars

(***************************************************************************)
(* agents.py: the two assistants.  A message is a sequence of characters,  *)
(* a reply is the text of the completion or a fixed text                   *)
(***************************************************************************)
ShoppingApology == "I apologize, but I encountered an error. Please try again."

ResearchApology ==
    "I apologize, but I encountered an error during research. Please try again."

SearchFirst == "Please perform a product search first."

search_keywords ==
    {<<"c", "o", "m", "p", "a", "r", "e">>,
     <<"v", "s">>,
     <<"v", "e", "r", "s", "u", "s">>,
     <<"r", "e", "v", "i", "e", "w">>,
     <<"l", "a", "t", "e", "s", "t">>,
     <<"n", "e", "w", "s">>,
     <<"p", "r", "i", "c", "e", " ", "h", "i", "s", "t", "o", "r", "y">>,
     <<"t", "r", "e", "n", "d", "s">>,
     <<"a", "l", "t", "e", "r", "n", "a", "t", "i", "v", "e">>,
     <<"s", "i", "m", "i", "l", "a", "r">>}

rag_keywords ==
    {<<"s", "i", "m", "i", "l", "a", "r">>,
     <<"l", "i", "k", "e">>,
     <<"a", "l", "t", "e", "r", "n", "a", "t", "i", "v", "e">>,
     <<"c", "o", "m", "p", "a", "r", "a", "b", "l", "e">>,
     <<"o", "t", "h", "e", "r", " ", "o", "p", "t", "i", "o", "n", "s">>,
     <<"d", "i", "f", "f", "e", "r", "e", "n", "t">>,
     <<"r", "e", "l", "a", "t", "e", "d">>}

_needs_web_search(message) == \E keyword \in search_keywords : Contains(keyword, Lower(message))

_needs_vector_search(message) == \E keyword \in rag_keywords : Contains(keyword, Lower(message))

\* the tools ResearchAssistant.chat runs for a message before the completion
\* call; each tool catches its own failure and returns a text for the prompt
ResearchTools(message) ==
    (IF _needs_web_search(message) THEN <<"web_search">> ELSE <<>>)
        \o (IF _needs_vector_search(message) THEN <<"vector_search">> ELSE <<>>)

HistoryEntry(role, message) == [role |-> role, message |-> message]

\* a chat that records the user's message before the completion call
assistant_chat_logs_first(assistant, message, outcome, apology) ==
    IF outcome.kind = "raise"
    THEN [assistant |-> [assistant EXCEPT !.conversation_history =
                            Append(@, HistoryEntry("user", message))],
          reply |-> apology]
    ELSE [assistant |-> [assistant EXCEPT !.conversation_history =
                            @ \o <<HistoryEntry("user", message),
                                   HistoryEntry("assistant", outcome.text)>>],
          reply |-> outcome.text]

\* the try block both chat methods end with: the completion call, then the two
\* history entries; a failure anywhere in it returns the apology
assistant_chat(assistant, message, outcome, apology) ==
    IF outcome.kind = "raise"
    THEN [assistant |-> assistant, reply |-> apology]
    ELSE [assistant |-> [assistant EXCEPT !.conversation_history =
                            @ \o <<HistoryEntry("user", message),
                                   HistoryEntry("assistant", outcome.text)>>],
          reply |-> outcome.text]

\* chat_with_shopping_assistant answering with an assistant that has no context
\* when none exists
chat_with_shopping_assistant_unguarded(assistant, message, outcome) ==
    LET a == IF IsNone(assistant) THEN ShoppingAssistant(<<>>) ELSE assistant
        r == assistant_chat(a, message, outcome, ShoppingApology)
    IN  [assistant |-> r.assistant, reply |-> r.reply, completions |-> <<outcome>>]

\* PriceComparisonApp.chat_with_shopping_assistant
chat_with_shopping_assistant(assistant, message, outcome) ==
    IF IsNone(assistant)
    THEN [assistant |-> assistant, reply |-> SearchFirst, completions |-> <<>>]
    ELSE LET r == assistant_chat(assistant, message, outcome, ShoppingApology)
         IN  [assistant |-> r.assistant, reply |-> r.reply, completions |-> <<outcome>>]

\* PriceComparisonApp.chat_with_research_assistant
chat_with_research_assistant(assistant, message, outcome) ==
    LET a == IF IsNone(assistant) THEN ResearchAssistant ELSE assistant
        r == assistant_chat(a, message, outcome, ResearchApology)
    IN  [assistant |-> r.assistant, reply |-> r.reply, completions |-> <<outcome>>,
         calls |-> ResearchTools(message)]

(***************************************************************************)
(* AppSpec: a PriceComparisonApp from its construction on: process_query   *)
(* runs, a step per stage, and between runs chat and clear_session calls   *)
(***************************************************************************)
KeyValues == {"", "key"}

AllComponents == {"parser", "scraper", "vector_db", "recommender"}

\* the outcomes the services give in the runs of a session
SessionParseOutcomes == {ServiceError}

SessionSearchOutcomes ==
    {SearchError,
     SearchResponse([shopping_results |->
        List(<<Obj([title |-> Str("A"), extracted_price |-> Num(99)])>>)])}

SessionRecommendOutcomes ==
    {Text(<<Json(Obj([best_overall |-> Obj([index |-> Num(0), reason |-> Str("r")]),
                      analysis |-> Str("a")]))>>)}

\* no call is running on the app
Idle == pc \in {"idle", "returned", "raised"}

AppInit ==
    /\ pc = "idle"
    /\ exc = ""
    /\ user_query = ""
    /\ completions = <<>>
    /\ search_out = None
    /\ product_info = None
    /\ preferences = None
    /\ search_results = <<>>
    /\ ranked_results = <<>>
    /\ top_n = PIPELINE_TOP_N
    /\ recommendation = None
    /\ index_out = ""
    /\ result = None
    /\ progress = <<>>
    /\ StoreInit
    /\ SearchInit
    /\ calls = <<>>
    /\ keys \in [GEMINI_API_KEY : KeyValues, SERPAPI_KEY : KeyValues]
    /\ app = "none"
    /\ components = {}
    /\ shopping_assistant = None
    /\ research_assistant = None
    /\ reply = ""
    /\ op = ""
    /\ runs = 0

\* PriceComparisonApp.__init__
Construct ==
    /\ app = "none"
    /\ IF ~validate(keys) THEN
            /\ exc' = "ValueError"
            /\ app' = "failed"
            /\ UNCHANGED components
       ELSE
            /\ exc' = ""
            /\ app' = "ready"
            /\ components' = AllComponents
    /\ op' = "__init__"
    /\ UNCHANGED <<pc, user_query, completions, search_out, product_info, preferences,
                   search_results, ranked_results, top_n, recommendation, index_out,
                   result, progress, store_vars, search_vars, calls, keys,
                   shopping_assistant, research_assistant, reply, runs>>

\* process_query is called: the locals of the run are fresh
StartQuery ==
    /\ app = "ready"
    /\ Idle
    /\ runs < MaxRuns
    /\ user_query' \in RawQueries
    /\ pc' = "parse"
    /\ exc' = ""
    /\ completions' = <<>>
    /\ search_out' = None
    /\ product_info' = None
    /\ preferences' = None
    /\ search_results' = <<>>
    /\ ranked_results' = <<>>
    /\ recommendation' = None
    /\ index_out' = ""
    /\ result' = None
    /\ progress' = <<>>
    /\ calls' = <<>>
    /\ runs' = runs + 1
    /\ op' = "process_query"
    /\ UNCHANGED <<top_n, store_vars, search_vars, keys, app, components,
                   shopping_assistant, research_assistant, reply>>

SessionParse == ParseStage(SessionParseOutcomes)

SessionSearch == SearchStage(SessionSearchOutcomes)

\* the clock of a session: every run happens within a millisecond of its own
SessionClockReads(products) == {[i \in 1..Len(products) |-> runs]}

SessionIndex == IndexStage(IndexOutcomes, DuplicatePolicies, SessionClockReads(ranked_results))

SessionRecommend == RecommendStage(SessionRecommendOutcomes)

\* PriceComparisonApp.clear_session
ClearSession ==
    /\ app = "ready"
    /\ Idle
    /\ shopping_assistant' = None
    /\ research_assistant' = None
    /\ op' = "clear_session"
    /\ completions' = <<>>
    /\ UNCHANGED <<pc, exc, user_query, search_out, product_info, preferences,
                   search_results, ranked_results, top_n, recommendation, index_out,
                   result, progress, store_vars, search_vars, calls, keys, app,
                   components, reply, runs>>

\* the messages of a session: a greeting to either assistant, and one to the
\* research assistant that asks for products like the ones found
Greeting == <<"H", "i">>

ShoppingMessages == {Greeting}

ResearchMessages == {Greeting, <<"m", "o", "r", "e", " ", "L", "i", "k", "e", " ", "A">>}

\* the outcomes of a chat's completion call
ChatOutcomes == {ServiceError, Text("answer")}

\* the history of an assistant, empty while there is none
HistoryOf(assistant) == IF IsNone(assistant) THEN <<>> ELSE assistant.conversation_history

ChatWithShoppingAssistant ==
    /\ app = "ready"
    /\ Idle
    /\ Len(HistoryOf(shopping_assistant)) < 2 * MaxChats
    /\ \E message \in ShoppingMessages, outcome \in ChatOutcomes :
        LET r == chat_with_shopping_assistant(shopping_assistant, message, outcome) IN
        /\ shopping_assistant' = r.assistant
        /\ reply' = r.reply
        /\ completions' = r.completions
    /\ calls' = <<>>
    /\ op' = "chat_with_shopping_assistant"
    /\ UNCHANGED <<pc, exc, user_query, search_out, product_info, preferences,
                   search_results, ranked_results, top_n, recommendation, index_out,
                   result, progress, store_vars, search_vars, keys, app,
                   components, research_assistant, runs>>

ChatWithResearchAssistant ==
    /\ app = "ready"
    /\ Idle
    /\ Len(HistoryOf(research_assistant)) < 2 * MaxChats
    /\ \E message \in ResearchMessages, outcome \in ChatOutcomes :
        LET r == chat_with_research_assistant(research_assistant, message, outcome) IN
        /\ research_assistant' = r.assistant
        /\ reply' = r.reply
        /\ completions' = r.completions
        /\ calls' = r.calls
    /\ op' = "chat_with_research_assistant"
    /\ UNCHANGED <<pc, exc, user_query, search_out, product_info, preferences,
                   search_results, ranked_results, top_n, recommendation, index_out,
                   result, progress, store_vars, search_vars, keys, app,
                   components, shopping_assistant, runs>>

AppNext ==
    \/ Construct
    \/ StartQuery
    \/ SessionParse
    \/ SessionSearch
    \/ StepRank
    \/ SessionIndex
    \/ SessionRecommend
    \/ ChatWithShoppingAssistant
    \/ ChatWithResearchAssistant
    \/ ClearSession

AppSpec == AppInit /\ [][AppNext]_vars

(***************************************************************************)
(* Claims                                                                  *)
(***************************************************************************)
\* the completion call ended in a service error or in text json.loads rejects
CompletionFailed(outcome) ==
    \/ outcome.kind = "raise"
    \/ JsonLoads(StripFences(outcome.text)).exc = "JSONDecodeError"

\* the completion call returned a JSON object
CompletionObject(outcome) ==
    /\ outcome.kind = "text"
    /\ JsonLoads(StripFences(outcome.text)).exc = ""
    /\ IsObj(JsonLoads(StripFences(outcome.text)).ret)

\* C1 (ParserSpec): for a non-empty raw query, whatever the completion service
\* did, the structured request returned by parse_query has a non-empty
\* search_query.
C1_SearchQueryNonEmpty ==
    (pc = "done" /\ user_query # "")
        => /\ "search_query" \in DOMAIN product_info
           /\ IsStr(product_info.search_query)
           /\ Len(product_info.search_query.str) > 0

\* C3 (ParserSpec): when the completion service raises or returns text that
\* is not parsable JSON, parse_query returns product = raw text, search_query
\* = raw text, price_priority = lowest, delivery_priority = true, the default
\* region and the default budget currency.
C3_FallbackOnFailure ==
    (pc = "done" /\ CompletionFailed(completions[1]))
        => /\ product_info.product = Str(user_query)
           /\ product_info.search_query = Str(user_query)
           /\ product_info.preferences.obj.price_priority = Str("lowest")
           /\ product_info.preferences.obj.delivery_priority = Bool(TRUE)
           /\ product_info.region = Str(DEFAULT_REGION)
           /\ product_info.budget.obj.currency = Str(DEFAULT_CURRENCY)

\* C3 witness: parse_query has returned the fallback for a non-empty raw
\* query after the completion service returned unparsable text.
C3_Witness ==
    /\ pc = "done"
    /\ user_query = "red phone"
    /\ completions[1] = Text(<<Prose>>)
    /\ product_info.search_query = Str("red phone")
    /\ product_info.preferences.obj.delivery_priority = Bool(TRUE)

\* the fields the prompt of parse_query asks the completion service for
ExpectedFields ==
    {"product", "brand", "model", "specifications", "budget", "region", "preferences"}

\* C4 (ParserSpec): when the completion service returns a JSON object that
\* lacks expected fields, parse_query returns the fallback structure it
\* returns on a service failure, not the partial object.
C4_MissingFieldsFallBack ==
    (/\ pc = "done"
     /\ CompletionObject(completions[1])
     /\ ~(ExpectedFields \subseteq DOMAIN JsonLoads(StripFences(completions[1].text)).ret.obj))
        => product_info = _create_fallback_structure(user_query)

\* C2 (Spec): whatever the completion and offer search services do (the
\* vector store working), process_query raises nothing and returns a 3-tuple
\* whose recommendation carries a status.
C2_NeverRaises ==
    (index_out # "raise")
        => /\ pc # "raised"
           /\ pc = "returned"
                => /\ Len(result) = 3
                   /\ "status" \in DOMAIN result[2]

\* C5 (Spec): when the offer search yields no offers, process_query returns
\* (structured request, {status: no_results, analysis: "No products found."}, []).
C5_NoResultsTuple ==
    (pc = "returned" /\ Len(search_results) = 0)
        => result = <<product_info,
                      [status |-> Str("no_results"), analysis |-> Str("No products found.")],
                      <<>>>>

\* C6 (RecommenderSpec): generate_recommendation on an empty offer sequence
\* returns status = no_results and makes no call to the completion service,
\* for every structured request and every top_n.
C6_EmptyNoCompletionCall ==
    (pc # "recommend" /\ Len(search_results) = 0)
        => /\ pc = "done"
           /\ recommendation.status = Str("no_results")
           /\ Len(completions) = 0

\* C6 witness: generate_recommendation has returned for an empty offer
\* sequence and a negative top_n.
C6_Witness ==
    /\ pc = "done"
    /\ Len(search_results) = 0
    /\ top_n = -1
    /\ recommendation.status = Str("no_results")

\* C7 (RecommenderSpec): the recommendation for an empty offer sequence is
\* exactly {status: no_results, analysis: "No products found.", products: []}.
C7_NoResultsRecord ==
    (pc = "done" /\ Len(search_results) = 0)
        => recommendation = [status |-> Str("no_results"),
                             analysis |-> Str("No products found."),
                             products |-> List(<<>>)]

\* the order (rating descending, price ascending) of the claim, a null rating
\* counting as 0 and a null price as the highest price
RatingOf(x) == IF IsNum(x.rating) THEN x.rating.num ELSE 0

PriceBelow(a, b) == IsNum(a.price) /\ (IsNone(b.price) \/ a.price.num < b.price.num)

OrderedBefore(a, b) ==
    \/ RatingOf(a) > RatingOf(b)
    \/ RatingOf(a) = RatingOf(b) /\ PriceBelow(a, b)

\* C8 (RecommenderSpec): when the completion service raises or returns
\* unparsable JSON, generate_recommendation on a non-empty offer sequence
\* (top_n >= 1, offers with null price or rating included) returns status =
\* success with best_overall.index = 0, and products[0] is a candidate among
\* the first top_n offers that no other candidate precedes in the order
\* (rating descending, price ascending).
C8_FallbackTopCandidate ==
    (/\ pc # "recommend"
     /\ Len(search_results) > 0
     /\ top_n >= 1
     /\ Len(completions) = 1
     /\ CompletionFailed(completions[1]))
        => /\ pc = "done"
           /\ recommendation.status = Str("success")
           /\ recommendation.best_overall.obj.index = Num(0)
           /\ LET c == Slice(search_results, top_n)
                  first == recommendation.products.list[1]
              IN  /\ \E i \in 1..Len(c) : c[i] = first
                  /\ \A i \in 1..Len(c) : ~OrderedBefore(c[i], first)

\* the number of times x occurs in the sequence s
Count(s, x) == Cardinality({i \in 1..Len(s) : s[i] = x})

\* C9 (RankSpec): for every offer sequence and every preferences dict,
\* rank_results returns a permutation of its input: every offer occurs in the
\* output as many times as in the input.
C9_RankIsPermutation ==
    (pc # "rank" /\ IsObj(preferences))
        => /\ pc = "done"
           /\ Len(ranked_results) = Len(search_results)
           /\ \A x \in Offers : Count(ranked_results, x) = Count(search_results, x)

\* the weighted score as the claim states it
ClaimedScore(x, prefs) ==
    LET lowest == Get(prefs, "price_priority", Str("lowest")) = Str("lowest")
        dp == Truthy(Get(prefs, "delivery_priority", Bool(FALSE)))
        low == IF IsStr(x.delivery) THEN Lower(x.delivery.str) ELSE <<>>
        s1 == IF lowest /\ IsNum(x.price) THEN Frac(10000, x.price.num + 1) ELSE Frac(0, 1)
        s2 == FracAdd(s1, RatingOf(x) * 10)
        s3 == IF dp /\ Contains(<<"f", "r", "e", "e">>, low) THEN FracAdd(s2, 50) ELSE s2
    IN  IF dp /\ (Contains(<<"f", "a", "s", "t">>, low)
                  \/ Contains(<<"e", "x", "p", "r", "e", "s", "s">>, low))
        THEN FracAdd(s3, 30)
        ELSE s3

\* the offers of s whose claimed score equals that of x, in their order in s
SameScore(s, x, prefs) ==
    SelectSeq(s, LAMBDA y : FracEq(ClaimedScore(y, prefs), ClaimedScore(x, prefs)))

\* C10 (RankSpec): for every offer sequence, the output of rank_results is
\* non-increasing in the weighted score (10000/(price+1) when price_priority
\* is lowest, plus rating times 10, plus 50 for "free" and 30 for "fast" or
\* "express" when delivery_priority is set), and offers of equal score keep
\* their input order.
C10_RankSortedStable ==
    (pc # "rank" /\ IsObj(preferences))
        => /\ pc = "done"
           /\ \A i \in 1..(Len(ranked_results) - 1) :
                ~FracLess(ClaimedScore(ranked_results[i], preferences.obj),
                          ClaimedScore(ranked_results[i + 1], preferences.obj))
           /\ \A x \in Offers :
                SameScore(ranked_results, x, preferences.obj)
                    = SameScore(search_results, x, preferences.obj)

\* the offers of s are in non-decreasing price order, those without a price last
PriceAscending(s) ==
    \A i, j \in 1..Len(s) : i < j => ~PriceBelow(s[j], s[i])

\* the caller asked rank_results for the lowest price and for nothing else:
\* the nearest the preferences argument comes to choosing a price-ascending policy
PricePolicyChosen(prefs) ==
    /\ IsObj(prefs)
    /\ Get(prefs.obj, "price_priority", Str("lowest")) = Str("lowest")
    /\ ~Truthy(Get(prefs.obj, "delivery_priority", Bool(FALSE)))

\* C11 (RankSpec): the ranking engine offers a price-ascending policy the
\* caller can choose: when rank_results is asked for the lowest price only
\* and returns, every offer without a price comes after every priced offer
\* and the prices are non-decreasing.
C11_PriceAscendingPolicy ==
    (pc = "done" /\ PricePolicyChosen(preferences)) => PriceAscending(ranked_results)

\* the search response lists the three priced listings
PricedScenario == search_out \in PricedOutcomes

\* C12 (Spec): when the search returns the offers priced 45000, 60000 and
\* 49000, with no rating and no delivery text, in any order, and the parsed
\* preferences have price_priority = lowest, the ranked sequence of
\* process_query holds the three offers and starts with the 45000 one, which
\* is also the offer a price-ascending ranking starts with: none of the
\* three is cheaper.
C12_CheapestFirst ==
    (/\ PricedScenario
     /\ pc \in {"index", "recommend", "returned", "raised"}
     /\ IsObj(preferences)
     /\ Get(preferences.obj, "price_priority", Str("lowest")) = Str("lowest"))
        => /\ Len(ranked_results) = 3
           /\ ranked_results[1].price = Num(45000)
           /\ \A i \in 1..3 : ~PriceBelow(search_results[i], ranked_results[1])

\* the scenario with the dearest offer listed first went through the pipeline
C12_Witness ==
    /\ PricedScenario
    /\ pc = "returned"
    /\ search_results[1].price = Num(60000)
    /\ Get(preferences.obj, "price_priority", Str("")) = Str("lowest")
    /\ result[3][1].price = Num(45000)

NonDecreasing(s) == \A i, j \in 1..Len(s) : i < j => s[i] <= s[j]

\* C13 (Spec): in every run of process_query with a progress callback, the
\* percentages given to the callback are non-decreasing, and when the run
\* returns, on the normal path or on the no-results path, the last one is 100.
C13_ProgressMonotone ==
    /\ NonDecreasing(progress)
    /\ pc = "returned" => (Len(progress) > 0 /\ progress[Len(progress)] = 100)

\* a run returned on the normal path, after all seven checkpoints
C13_Witness ==
    /\ pc = "returned"
    /\ Len(result[3]) > 0
    /\ progress = <<10, 30, 50, 60, 80, 90, 100>>

\* C14 (Spec): when the semantic-index write of process_query fails, the
\* failure is not propagated: the run goes on to the recommendation
\* synthesizer (the 80 checkpoint is passed) instead of ending in the
\* exception of the write.
C14_IndexFailureContained ==
    index_out = "raise" => (Len(progress) > 4 /\ (pc = "raised" => exc # "Exception"))

\* the search call raised, or its response lists no shopping results
NoListings(outcome) ==
    \/ outcome.kind = "raise"
    \/ /\ outcome.kind = "dict"
       /\ \/ "shopping_results" \notin DOMAIN outcome.results
          \/ outcome.results.shopping_results = List(<<>>)

\* C15 (ScraperSpec): whenever the offer search service raises or returns no
\* shopping listings, search_google_shopping raises nothing and returns the
\* empty sequence, and so does search_all_sources.
C15_SearchFailureGivesEmpty ==
    (pc # "search" /\ NoListings(search_out))
        => /\ pc = "done"
           /\ exc = ""
           /\ search_results = <<>>
           /\ search_google_shopping(product_info, search_out) = Return(<<>>)

\* the search service raised and search_all_sources returned []
C15_Witness ==
    /\ pc = "done"
    /\ search_out = SearchError
    /\ search_results = <<>>

\* the raw listings of a search response
ListingsOf(outcome) ==
    IF /\ outcome.kind = "dict"
       /\ "shopping_results" \in DOMAIN outcome.results
       /\ IsList(outcome.results.shopping_results)
    THEN outcome.results.shopping_results.list
    ELSE <<>>

\* the listings that can be normalized: the dicts
Normalizable(listings) == SelectSeq(listings, LAMBDA x : IsObj(x))

\* C16 (ScraperSpec): a raw listing that cannot be normalized is left out
\* alone: the offers returned are the normalizations of the other listings
\* of the response, in their original order.
C16_OnlyBadListingOmitted ==
    pc # "search" =>
        LET good == Normalizable(ListingsOf(search_out))
        IN  /\ pc = "done"
            /\ Len(search_results) = Len(good)
            /\ \A i \in 1..Len(good) :
                  search_results[i] = _normalize_google_shopping_result(good[i]).obj

\* a listing that cannot be normalized stood between two that can
C16_Witness ==
    /\ pc = "done"
    /\ Len(ListingsOf(search_out)) = 3
    /\ IsObj(ListingsOf(search_out)[1])
    /\ ~IsObj(ListingsOf(search_out)[2])
    /\ IsObj(ListingsOf(search_out)[3])
    /\ ListingsOf(search_out)[1].obj.title # ListingsOf(search_out)[3].obj.title
    /\ Len(search_results) = 2
    /\ search_results[1].title = ListingsOf(search_out)[1].obj.title
    /\ search_results[2].title = ListingsOf(search_out)[3].obj.title

\* the raw listing carries a numeric price
HasNumericPrice(listing) ==
    /\ "extracted_price" \in DOMAIN listing.obj
    /\ IsNum(listing.obj.extracted_price)

\* C17 (ScraperSpec): an offer has price = null exactly when its raw listing
\* carried no numeric price; a listing without a numeric price never yields
\* a numeric price such as 0.
C17_NullPriceIffNoNumericPrice ==
    pc = "done" =>
        LET good == Normalizable(ListingsOf(search_out))
        IN  \A i \in 1..Len(search_results) :
                i <= Len(good) => (IsNone(search_results[i].price) <=> ~HasNumericPrice(good[i]))

\* C18 (ScraperSpec): whatever number of listings the search service
\* returns, search_all_sources returns at most MAX_RESULTS offers.
C18_AtMostMaxResults ==
    pc = "done" => Len(search_results) <= MAX_RESULTS

\* C19 (VectorSpec): after any sequence of add_products calls with no clear
\* in between, the collection holds as many documents as the batches of the
\* calls that returned held offers; indexing an offer again adds an entry
\* and overwrites none.
C19_CountIsSumOfBatches ==
    Len(collection) = batch_total

\* C20 (VectorSpec): across any sequence or interleaving of add_products
\* calls, two of them within the same clock millisecond included, no two
\* documents handed to the collection are assigned the same id.
C20_IdsUnique ==
    \A i, j \in 1..Len(assigned_ids) : assigned_ids[i] = assigned_ids[j] => i = j

\* the last call was a similarity query that returned
Searched == op = "search_similar_products" /\ exc = ""

\* C21 (VectorSpec): after clear_database the collection holds no document;
\* whatever add_products calls came before, a similarity query returns only
\* documents inserted after the last clear; and the documents inserted after
\* it are retrievable: a query for at least as many results as there are
\* such documents returns every one of them.
C21_ClearEmptiesTheIndex ==
    /\ (op = "clear_database" /\ exc = "") => Len(collection) = 0
    /\ Searched =>
          \A i \in 1..Len(hit_ids) :
              \E d \in since_clear : d.id = hit_ids[i] /\ d.document = similar[i].document
    /\ (Searched /\ n_results >= Cardinality(since_clear)) =>
          \A d \in since_clear : \E i \in 1..Len(hit_ids) : hit_ids[i] = d.id

\* a document was deleted by clear_database, another was added afterwards
\* and a query returned just that one
C21_Witness ==
    /\ Searched
    /\ cleared >= 1
    /\ Cardinality(since_clear) = 1
    /\ Len(hit_ids) = 1
    /\ \E d \in since_clear : d.id = hit_ids[1]

\* C22 (VectorSpec): after an offer is indexed, a similarity query whose
\* text is that offer's title returns the id of that offer's document among
\* its n_results results, for every n_results >= 1, with a similarity score
\* between 0 and 1.
C22_TitleQueryFindsOffer ==
    Searched =>
        \A k \in 1..Len(collection) :
            collection[k].metadata.title = Str(query) =>
                \E i \in 1..Len(hit_ids) :
                    /\ hit_ids[i] = collection[k].id
                    /\ similar[i].similarity_score.num >= 0
                    /\ similar[i].similarity_score.num <= similar[i].similarity_score.den

\* C23 (RecommenderSpec): for every input and every outcome of the completion
\* service, the recommendation generate_recommendation returns has a status
\* among success, no_results and error, and never error when the offer
\* sequence given to it is non-empty.
C23_StatusEnumeration ==
    pc = "done" =>
        /\ recommendation.status \in {Str("success"), Str("no_results"), Str("error")}
        /\ recommendation.status = Str("error") => Len(search_results) = 0

\* the completion failed on a non-empty offer sequence and the fallback
\* answered with success
C23_Witness ==
    /\ pc = "done"
    /\ Len(search_results) > 0
    /\ Len(completions) = 1
    /\ CompletionFailed(completions[1])
    /\ recommendation.status = Str("success")

\* the index of a pick of the recommendation lies inside its products
IndexInRange(rec, pick) ==
    pick \in DOMAIN rec =>
        /\ IsObj(rec[pick])
        /\ "index" \in DOMAIN rec[pick].obj
        /\ IsNum(rec[pick].obj.index)
        /\ 0 <= rec[pick].obj.index.num
        /\ rec[pick].obj.index.num < Len(rec.products.list)

\* C27 (RecommenderSpec): in every recommendation with status = success
\* (top_n >= 1), each of best_overall, best_value and fastest_delivery that
\* is present has an index i with 0 <= i < length of products, whatever
\* indices the JSON of the completion service contained.
C27_PickIndicesInRange ==
    (pc = "done" /\ top_n >= 1 /\ recommendation.status = Str("success"))
        => \A pick \in {"best_overall", "best_value", "fastest_delivery"} :
               IndexInRange(recommendation, pick)

\* a required credential is missing
MissingCredentials == keys.GEMINI_API_KEY = "" \/ keys.SERPAPI_KEY = ""

\* C24 (AppSpec): when the completion-service key or the search-service key
\* is missing, the construction of PriceComparisonApp fails with ValueError
\* before any component is created: no process_query run starts and no call
\* reaches the completion, search or vector-store service on that app.
C24_NoAppWithoutCredentials ==
    MissingCredentials =>
        /\ app \in {"none", "failed"}
        /\ op = "__init__" => (app = "failed" /\ exc = "ValueError")
        /\ components = {}
        /\ runs = 0
        /\ completions = <<>>
        /\ search_out = None
        /\ adds = 0
        /\ collection = <<>>

\* the construction failed with only the search-service key missing
C24_Witness ==
    /\ keys.GEMINI_API_KEY = "key"
    /\ keys.SERPAPI_KEY = ""
    /\ op = "__init__"
    /\ app = "failed"
    /\ exc = "ValueError"

\* the calls of a complete run, in order
StageOrder ==
    <<"interpret", "aggregate", "search_service", "rank", "index", "synthesize",
      "initialize_agents">>

\* C25 (Spec): in a run of process_query the stages are called in the order
\* interpret, aggregate, rank, index, synthesize, each at most once and one
\* after the other; a run that gets past aggregate has queried the search
\* service exactly once, and a run whose aggregate returned no offer returns
\* without calling rank, index, synthesize or the assistants' initialisation.
C25_StagesInOrderOnce ==
    /\ Len(calls) <= Len(StageOrder)
    /\ calls = SubSeq(StageOrder, 1, Len(calls))
    /\ pc \in {"rank", "index", "recommend", "returned"} =>
            Len(SelectSeq(calls, LAMBDA c : c = "search_service")) = 1
    /\ (pc = "returned" /\ search_results = <<>>) =>
            calls = <<"interpret", "aggregate", "search_service">>

\* a run that went through every stage and returned
C25_Witness ==
    /\ pc = "returned"
    /\ Len(search_results) > 0
    /\ calls = StageOrder

\* an offer of the input has no price
NullPriceGiven == \E i \in 1..Len(search_results) : IsNone(search_results[i].price)

\* C26 (RankSpec): rank_results given a preferences dict and offers of which
\* one has a null price, all with a delivery text, does not fail: it returns
\* every offer it was given, the offer without a price among them.
C26_NullPriceRanked ==
    (/\ pc # "rank"
     /\ IsObj(preferences)
     /\ NullPriceGiven
     /\ \A i \in 1..Len(search_results) : IsStr(search_results[i].delivery))
        => /\ pc = "done"
           /\ Len(ranked_results) = Len(search_results)
           /\ \A i \in 1..Len(search_results) :
                \E j \in 1..Len(ranked_results) : ranked_results[j] = search_results[i]

\* C28 (AppSpec): after any sequence of process_query and clear_session calls
\* of which the last process_query returned, the shopping assistant is absent
\* or its context is the structured request and the recommendation that
\* process_query returned; a run that ends in no_results leaves no assistant
\* that answers from an earlier run.
C28_AssistantContextIsCurrent ==
    (app = "ready" /\ pc = "returned") =>
        \/ IsNone(shopping_assistant)
        \/ /\ shopping_assistant.context.product_info = result[1]
           /\ shopping_assistant.context.recommendation = result[2]

\* user entry then assistant entry, over the whole history
Alternates(history) ==
    /\ Len(history) % 2 = 0
    /\ \A i \in 1..Len(history) :
        history[i].role = (IF i % 2 = 1 THEN "user" ELSE "assistant")

\* the last call was a chat whose completion call failed
ChatFailed ==
    /\ op \in {"chat_with_shopping_assistant", "chat_with_research_assistant"}
    /\ completions = <<ServiceError>>

\* the histories alternate, and a failed chat has returned the apology text
\* of its assistant
HistoriesWellFormed ==
    /\ Alternates(HistoryOf(shopping_assistant))
    /\ Alternates(HistoryOf(research_assistant))
    /\ ChatFailed =>
        reply = (IF op = "chat_with_shopping_assistant" THEN ShoppingApology
                 ELSE ResearchApology)

\* a step that is a failed chat leaves both histories as they were
FailedChatKeepsHistory ==
    ChatFailed' =>
        /\ HistoryOf(shopping_assistant') = HistoryOf(shopping_assistant)
        /\ HistoryOf(research_assistant') = HistoryOf(research_assistant)

\* C29 (AppSpec): after any sequence of chat calls the conversation history
\* of the shopping assistant and of the research assistant has even length
\* and alternates user entry, assistant entry; a chat whose completion call
\* fails leaves the histories unchanged and returns the assistant's fixed
\* apology text.
C29_HistoryAlternates == []HistoriesWellFormed /\ [][FailedChatKeepsHistory]_vars

\* a failed chat with the research assistant after answered chats with both
C29_Witness ==
    /\ ChatFailed
    /\ op = "chat_with_research_assistant"
    /\ Len(HistoryOf(research_assistant)) = 2
    /\ Len(HistoryOf(shopping_assistant)) = 4
    /\ reply = ResearchApology

\* a step that is a clear_session call removes both assistants and keeps the
\* collection, document for document
ClearSessionKeepsIndex ==
    op' = "clear_session" =>
        /\ IsNone(shopping_assistant')
        /\ IsNone(research_assistant')
        /\ collection' = collection
        /\ cleared' = cleared

\* a step that is a chat with the shopping assistant while there is none
\* returns the fixed text, calls no completion and creates no assistant
ChatNeedsAssistant ==
    (op' = "chat_with_shopping_assistant" /\ IsNone(shopping_assistant)) =>
        /\ reply' = SearchFirst
        /\ completions' = <<>>
        /\ IsNone(shopping_assistant')

\* the last call was a chat with the shopping assistant while there was none
ChatWithoutAssistant ==
    /\ op = "chat_with_shopping_assistant"
    /\ IsNone(shopping_assistant)

\* C30 (AppSpec): clear_session removes both assistants and leaves the
\* semantic index unchanged, every document indexed before it still being
\* there; chat_with_shopping_assistant called while there is no assistant, as
\* after clear_session and before the next successful search, returns the
\* fixed text that asks for a product search first, and makes no call to the
\* completion service.
C30_ClearSessionFrame == [][ClearSessionKeepsIndex /\ ChatNeedsAssistant]_vars

\* a run indexed an offer and created the assistants, clear_session removed
\* them, and the shopping assistant was then asked
C30_Witness ==
    /\ ChatWithoutAssistant
    /\ pc = "returned"
    /\ Len(result[3]) > 0
    /\ Len(collection) > 0
    /\ IsNone(research_assistant)
    /\ reply = SearchFirst

====
